---- MODULE Spec2Model ----
(***************************************************************************)
(* The frame recording pipeline of lab_grab:                               *)
(*   StorageService.write/close  (producer, src/lab_grab/ui/storage.py)    *)
(*     -> BufferThread (FIFO + frame pool, src/lab_grab/ui/storage.py)     *)
(*     -> WriterThread (FIFO + encoder stdin, src/lab_grab/ui/encoding.py) *)
(* Every QMutex is a variable naming its holder; every lock() is a step of *)
(* its own, and the code between lock() and unlock() is one step.          *)
(***************************************************************************)
EXTENDS Integers, Sequences, FiniteSets, TLC

\* ---------------------------------------------------------------- bounds
\* number of pre-allocated pool buffers (BufferThread.__init__'s num_buffer,
\* 200 in the source; kept small here)
num_buffer == 2
\* frame indices handed to write() range over 0..MaxIndex
MaxIndex == 2
\* how far the application's counters may run up: connections of frameReady
\* to write, stops whose acquisitionEnded is pending, sinks left behind
MaxRepeat == 2
\* runs of check_availability followed for one name
MaxProbes == 2
\* the values and range limits of a device setting range over 0..MaxValue
MaxValue == 3

\* ---------------------------------------------------------------- values
\* a reference to no buffer (Python None in a queue or in `img`)
NoBuf == 0
\* content of the zeroed filler frame StorageService._empty
Empty == 0
\* the frame argument None of push(): the end-of-stream sentinel
NoneFrame == -1
\* a frame object on which self._convert(frame) raises
Invalid == -2
\* content of a pool buffer made by numpy.empty and never written
Uninit == -3

\* every buffer id: the pool's own and the copies push() allocates
MaxBuf == num_buffer + MaxIndex + 1
BufIds == 1..MaxBuf

VARIABLES
  \* StorageService
  sink,        \* self._sink is not None
  nextindex,   \* self._nextindex
  session,     \* 0 before the first prepare(), 1 in the first session, 2 in every later one
  \* the thread that calls write()/close(), and its locals
  prod_pc, w_index, w_frame, p_frame, p_img, p_ret,
  \* BufferThread
  bt_queue, bt_count, bt_mutex, bt_toquit, bt_pc, bt_img,
  buffer, in_buf, use_buf, bufdata, nalloc,
  \* WriterThread
  wt_queue, wt_count, wt_toquit, wt_mutex, wt_pc, wt_img, wt_exit, proc,
  \* history of the session
  pushed,      \* contents accepted by BufferThread.push, in order
  written,     \* contents written to the encoder stream, in order
  w_e, w_len,  \* nextindex and Len(pushed) when the running write() began
  exhausted,   \* push() found the pool empty in this session
  ended,       \* the session's end: "no", "closing", "closed", "aborting", "aborted"
  \* DeviceControl and SessionManager
  mode,        \* DeviceControl._mode
  grabbing,    \* the device has been started and not stopped
  ending,      \* stops of the device whose acquisitionEnded is still to be handled
  connected,   \* connections of frameReady to StorageService.write
  gui,         \* "idle", or "closing" inside _finalizeAcquisition's close()
  orphans,     \* sinks that prepare() replaced while they were running
  interrupt,   \* an emission of interruptAcquisition waits for its slot
  message,     \* level of the last message emitted: "none", "info", "error"
  strobe_mode, \* the strobe setting of the acquisition, one of StrobeModes
  strobe,      \* device.strobe
  prev_strobe, \* DeviceControl.__prev_strobe
  strobe0,     \* device.strobe when the mode last left IDLE
  called,      \* the last call of setAcquisitionMode: the name requested,
               \* whether it raised, the updatedAcquisitionMode it emitted
  \* the widgets that command DeviceControl
  dev_open,    \* DeviceControl._device is not None
  btn_text,    \* text() of the FOCUS and of the GRAB button
  btn_enabled, \* isEnabled() of the two buttons
  sel_enabled, \* isEnabled() of the device selector's Open/Close button
  \* Devices (ic_grab)
  availability, \* Devices._availability: "absent" for a name that is no key
  probes,       \* runs of check_availability for each name
  returned,     \* the last call of available(): its name and what it returned
  \* StorageService's settings
  encoders,     \* StorageService.DEFAULT_ENCODERS
  encoder,      \* self._encoder
  quality,      \* self._quality
  enc_call,     \* the last call of setEncoder: whether it raised, the
                \* encoders updatedEncoder was emitted with, whether
                \* updateFileName() was called
  \* the quality options of the encoder command
  q_in,         \* two quality settings
  q_fun,        \* the quality_option applied to them, "none" before
  q_out,        \* the options it returned for the two
  \* a ValueModel
  vm_device,    \* self._device is not None
  vm_range,     \* what the device's getRangeImpl() returns, <<>> without one
  vm_default,   \* the class's DEFAULT_RANGE, <<>> for None
  vm_preferred, \* self._preferred, <<>> for None
  vm_set        \* the last call of setPreferred: its value, the range that
                \* getRange() returned, the value handed to setValueImpl,
                \* whether a warning was emitted

svc_vars  == <<sink, nextindex, session>>
prod_vars == <<prod_pc, w_index, w_frame, p_frame, p_img, p_ret>>
btq_vars  == <<bt_queue, bt_count, bt_toquit>>
pool_vars == <<buffer, in_buf, bufdata, nalloc>>
wtq_vars  == <<wt_queue, wt_count, wt_toquit>>
hist_vars == <<pushed, written, w_e, w_len, exhausted, ended>>
ctl_vars  == <<strobe_mode, strobe, prev_strobe, strobe0, called>>
btn_vars  == <<dev_open, btn_text, btn_enabled, sel_enabled>>
app_vars  == <<mode, grabbing, ending, connected, gui, orphans,
               interrupt, message, ctl_vars, btn_vars>>
dev_vars  == <<availability, probes, returned>>
enc_vars  == <<encoders, encoder, quality, enc_call>>
opt_vars  == <<q_in, q_fun, q_out>>
val_vars  == <<vm_device, vm_range, vm_default, vm_preferred, vm_set>>
ui_vars   == <<val_vars>>
cfg_vars  == <<dev_vars, enc_vars, opt_vars, ui_vars>>

vars == <<sink, nextindex, session,
          prod_pc, w_index, w_frame, p_frame, p_img, p_ret,
          bt_queue, bt_count, bt_mutex, bt_toquit, bt_pc, bt_img,
          buffer, in_buf, use_buf, bufdata, nalloc,
          wt_queue, wt_count, wt_toquit, wt_mutex, wt_pc, wt_img, wt_exit, proc,
          pushed, written, w_e, w_len, exhausted, ended,
          mode, grabbing, ending, connected, gui, orphans,
          interrupt, message,
          strobe_mode, strobe, prev_strobe, strobe0, called,
          dev_open, btn_text, btn_enabled, sel_enabled,
          availability, probes, returned,
          encoders, encoder, quality, enc_call,
          q_in, q_fun, q_out,
          vm_device, vm_range, vm_default, vm_preferred, vm_set>>

\* ---------------------------------------------------------------- modes
\* utils.AcquisitionModes
IDLE == "ABORT"
FOCUS == "FOCUS"
GRAB == "GRAB"
AcquisitionModes == {IDLE, FOCUS, GRAB}

\* the names a caller may hand to setAcquisitionMode: the three modes and a
\* name that is none of them
ModeNames == AcquisitionModes \cup {"PAUSE"}

\* utils.StrobeModes
DISABLED == "Disabled"
GRAB_ONLY == "Grab only"
FOCUS_AND_GRAB == "Focus and Grab"
StrobeModes == {DISABLED, GRAB_ONLY, FOCUS_AND_GRAB}

\* StrobeModes.requires_strobe(strobemode, acqmode)
requires_strobe(strobemode, acqmode) ==
  IF acqmode = FOCUS
    THEN strobemode = FOCUS_AND_GRAB
    ELSE IF acqmode = GRAB
      THEN strobemode \in {FOCUS_AND_GRAB, GRAB_ONLY}
      ELSE FALSE

\* the two acquisition buttons, named by their LABEL_START
Buttons == {FOCUS, GRAB}

\* before the first call of setAcquisitionMode
NoRequest == [mode |-> "", raised |-> FALSE, updated |-> <<>>]

\* ---------------------------------------------------------------- devices
\* encoding.Devices: the names of the encoding devices, and a name that is
\* none of them
NONE == "None"
CPU == "CPU"
QSV == "Intel-QSV CPU"
NVIDIA == "NVIDIA GPU"
DeviceNames == {NONE, CPU, QSV, NVIDIA, "unknown"}

\* before the first call of available()
NoCall == [device |-> "", value |-> "False"]

\* ---------------------------------------------------------------- encoders
\* encoding.Encoder objects of the module
RAW_VIDEO ==
  [name |-> "Raw video", device |-> NONE, suffix |-> ".avi",
   vcodec |-> "rawvideo", pix_fmt |-> "yuv420p",
   quality_option |-> "no_quality_option"]
MJPEG_CPU ==
  [name |-> "MJPEG", device |-> CPU, suffix |-> ".avi",
   vcodec |-> "mjpeg", pix_fmt |-> "yuvj420p",
   quality_option |-> "mjpeg_quality_option"]
MJPEG_QSV ==
  [name |-> "MJPEG", device |-> QSV, suffix |-> ".avi",
   vcodec |-> "mjpeg_qsv", pix_fmt |-> "yuvj420p",
   quality_option |-> "mjpeg_quality_option"]
H264_NVENC ==
  [name |-> "H.264", device |-> NVIDIA, suffix |-> ".avi",
   vcodec |-> "h264_nvenc", pix_fmt |-> "yuv420p",
   quality_option |-> "h264_nvenc_quality_option"]

BASE_ENCODER_LIST == <<RAW_VIDEO, MJPEG_CPU, MJPEG_QSV, H264_NVENC>>

\* Encoder.label: the name, followed by the device unless it is "None"
label(e) == IF e.device # NONE THEN <<e.name, ", ", e.device, "-encoding">>
                               ELSE <<e.name>>

\* Encoder.description: f"{self.label} (*{self.suffix})", as its pieces
description(e) == label(e) \o <<" (*", e.suffix, ")">>

\* StorageService.QUALITY_RANGE
QUALITY_RANGE == <<1, 100>>

\* ---------------------------------------------------------------- quality
\* the decimal digits as characters
Digits == <<"0", "1", "2", "3", "4", "5", "6", "7", "8", "9">>

\* str(n) of an int, as its characters
RECURSIVE str(_)
str(n) ==
  IF n < 0 THEN <<"-">> \o str(0 - n)
  ELSE IF n < 10 THEN <<Digits[n + 1]>>
  ELSE str(n \div 10) \o <<Digits[(n % 10) + 1]>>

\* the digit a character stands for
DigitOf(c) == (CHOOSE i \in 1..Len(Digits) : Digits[i] = c) - 1

\* the int a string of characters is the decimal notation of, as the encoder
\* reads it
RECURSIVE int(_)
int(s) ==
  IF s[1] = "-" THEN 0 - int(Tail(s))
  ELSE IF Len(s) = 1 THEN DigitOf(s[1])
  ELSE 10 * int(SubSeq(s, 1, Len(s) - 1)) + DigitOf(s[Len(s)])

\* Python's round(n / d) for ints n and d > 0: the nearest int, and of two
\* equally near ones the even one
round(n, d) ==
  LET q == n \div d
      r == n % d
  IN IF 2 * r < d THEN q
     ELSE IF 2 * r > d THEN q + 1
     ELSE IF q % 2 = 0 THEN q ELSE q + 1

\* encoding.no_quality_option
no_quality_option(value) == <<>>

\* A mapping that grows with the quality.
mjpeg_quality_ascending(value) ==
  <<"-q:v", str(2 + round((value - 1) * 29, 99))>>

\* encoding.mjpeg_quality_option
mjpeg_quality_option(value) ==
  <<"-q:v", str(31 + round((1 - value) * 29, 99))>>

\* A mapping for NVEnc with the span of the one for MJPEG.
h264_nvenc_quality_short(value) ==
  <<"-rc:v", "vbr", "-cq:v", str(43 + round((1 - value) * 29, 99))>>

\* encoding.h264_nvenc_quality_option
h264_nvenc_quality_option(value) ==
  <<"-rc:v", "vbr", "-cq:v", str(43 + round((1 - value) * 33, 99))>>

\* Encoder.quality_option of an encoder, by the name of the function
quality_option(f, value) ==
  CASE f = "mjpeg_quality_option" -> mjpeg_quality_option(value)
    [] f = "h264_nvenc_quality_option" -> h264_nvenc_quality_option(value)
    [] OTHER -> no_quality_option(value)

\* the quality_option functions of the encoders
QualityFunctions ==
  {BASE_ENCODER_LIST[i].quality_option : i \in 1..Len(BASE_ENCODER_LIST)}

\* the settings of the quality selector
Qualities == QUALITY_RANGE[1]..QUALITY_RANGE[2]

\* ---------------------------------------------------------------- deque
\* a slip: collections.deque.append, which puts x at the end pop() takes from
AppendAtPopEnd(q, x) == q \o <<x>>

\* collections.deque.appendleft
AppendLeft(q, x) == <<x>> \o q

\* a slip: collections.deque.popleft, which takes from the end appendleft fills
PopLeft(q) == [value |-> q[1], rest |-> SubSeq(q, 2, Len(q))]

\* collections.deque.pop: the rightmost element, and the deque left behind
Pop(q) == [value |-> q[Len(q)], rest |-> SubSeq(q, 1, Len(q) - 1)]

\* a slip: the loop's test with >= for >
NeedsFillerOffByOne(index, expected) == index >= expected

\* the test of write()'s loop, `while index > self._nextindex`
NeedsFiller(index, expected) == index > expected

\* a slip: counting the expected index from one
FirstIndexFromOne == 0 + 1

\* the index prepare() gives self._nextindex
FirstIndex == 0

\* a slip: the abort honoured only once the FIFO has been passed on
AbortSeenWhenDrained(toquit, count) == toquit /\ count = 0

\* the test `if self._toquit == True` of BufferThread.run, made under the
\* mutex, right before the pop
AbortSeen(toquit, count) == toquit

\* a slip: the wakeAll() forgotten
NoWake(pc) == pc

\* QWaitCondition.wakeAll on a thread at position pc: a waiting thread is
\* released (it still has to take the mutex again), any other is unaffected
WakeAll(pc) == IF pc = "wait" THEN "woken" ELSE pc

\* ---------------------------------------------------------------- Init
\* Outside write() and close() their local variables, and those of the push()
\* they call, do not exist.
NoLocals ==
  /\ w_index = 0 /\ w_frame = Empty /\ w_e = 0 /\ w_len = 0
  /\ p_frame = Empty /\ p_img = NoBuf /\ p_ret = "frame"

\* the return from write() or close()
DropLocals ==
  /\ w_index' = 0 /\ w_frame' = Empty /\ w_e' = 0 /\ w_len' = 0
  /\ p_frame' = Empty /\ p_img' = NoBuf /\ p_ret' = "frame"

\* The state after StorageService.__init__, DeviceControl.__init__ and
\* SessionManager.__init__: no sink, no threads, the mode IDLE, frameReady
\* not connected to write; and after a device has been opened, which has
\* enabled the two acquisition buttons.
RecorderInit ==
  /\ sink = FALSE /\ nextindex = 0 /\ session = 0
  /\ prod_pc = "idle" /\ NoLocals
  /\ bt_queue = <<>> /\ bt_count = 0 /\ bt_mutex = "free" /\ bt_toquit = FALSE
  /\ bt_pc = "done" /\ bt_img = NoBuf
  /\ buffer = <<>> /\ in_buf = 0 /\ use_buf = "free"
  /\ bufdata = [b \in BufIds |-> Uninit] /\ nalloc = 0
  /\ wt_queue = <<>> /\ wt_count = 0 /\ wt_toquit = FALSE /\ wt_mutex = "free"
  /\ wt_pc = "done" /\ wt_img = NoBuf /\ wt_exit = "none" /\ proc = "none"
  /\ pushed = <<>> /\ written = <<>>
  /\ exhausted = FALSE /\ ended = "no"
  /\ mode = IDLE /\ grabbing = FALSE /\ ending = 0
  /\ connected = 0 /\ gui = "idle" /\ orphans = 0
  /\ interrupt = FALSE /\ message = "none"
  /\ strobe_mode = DISABLED /\ strobe = FALSE
  /\ prev_strobe = FALSE /\ strobe0 = FALSE
  /\ called = NoRequest
  /\ dev_open = TRUE /\ sel_enabled = TRUE
  /\ btn_text = [b \in Buttons |-> b]
  /\ btn_enabled = [b \in Buttons |-> TRUE]
  /\ availability = [d \in DeviceNames |-> "absent"]
  /\ probes = [d \in DeviceNames |-> 0]
  /\ returned = NoCall

\* before the first call of setEncoder
NoEncoderCall == [raised |-> FALSE, updated |-> <<>>, filename |-> FALSE]

\* StorageService.__init__ on a machine where the encoders of list passed
\* their check: the first of them is selected, at quality 75.
EncoderInit(list) ==
  /\ encoders = list
  /\ encoder = list[1]
  /\ quality = 75
  /\ enc_call = NoEncoderCall

\* no quality option has been computed for the settings in pair
OptionInit(pair) ==
  /\ q_in = pair
  /\ q_fun = "none"
  /\ q_out = <<<<>>, <<>>>>

\* before the first call of setPreferred
NoSet == [value |-> <<>>, range |-> <<>>, forwarded |-> <<>>, warning |-> FALSE]

\* ValueModel.__init__ of a class whose DEFAULT_RANGE is default, without a
\* device and without a preferred value
ValueInit(default) ==
  /\ vm_device = FALSE /\ vm_range = <<>>
  /\ vm_default = default
  /\ vm_preferred = <<>>
  /\ vm_set = NoSet

\* after construction, on a machine that has every encoder
Init ==
  /\ RecorderInit
  /\ EncoderInit(BASE_ENCODER_LIST)
  /\ OptionInit(<<75, 75>>)
  /\ ValueInit(<<>>)

\* ---------------------------------------------------------------- StorageService
\* StorageService.prepare: a new BufferThread (which builds the pool, opens the
\* encoder and starts its WriterThread) replaces self._sink, the expected
\* index restarts at 0 and the BufferThread is started.  Spec follows the
\* sessions that begin after the previous one was finalized (close() returned)
\* or aborted (write()'s handler returned), when its threads have ended;
\* prepare() with a sink in place is followed in AppSpec.
Prepare ==
  /\ prod_pc = "idle" /\ sink = FALSE
  /\ bt_pc = "done" /\ wt_pc = "done"
  /\ sink' = TRUE /\ nextindex' = FirstIndex
  /\ session' = IF session = 0 THEN 1 ELSE 2
  /\ bt_queue' = <<>> /\ bt_count' = 0 /\ bt_mutex' = "free" /\ bt_toquit' = FALSE
  /\ bt_pc' = "lock" /\ bt_img' = NoBuf
  /\ buffer' = [i \in 1..num_buffer |-> i] /\ in_buf' = num_buffer
  /\ use_buf' = "free" /\ bufdata' = [b \in BufIds |-> Uninit] /\ nalloc' = 0
  /\ wt_queue' = <<>> /\ wt_count' = 0 /\ wt_toquit' = FALSE /\ wt_mutex' = "free"
  /\ wt_pc' = "lock" /\ wt_img' = NoBuf /\ wt_exit' = "none" /\ proc' = "open"
  /\ pushed' = <<>> /\ written' = <<>>
  /\ exhausted' = FALSE /\ ended' = "no"
  /\ UNCHANGED <<prod_pc, w_index, w_frame, p_frame, p_img, p_ret, w_e, w_len>>
  /\ UNCHANGED <<app_vars, cfg_vars>>

\* A failed launch that leaves a sink behind it.
PrepareFailsWithSink ==
  /\ prod_pc = "idle" /\ sink = FALSE
  /\ bt_pc = "done" /\ wt_pc = "done"
  /\ prod_pc' = "prep_raise" /\ sink' = TRUE
  /\ UNCHANGED <<nextindex, session, w_index, w_frame, p_frame, p_img, p_ret,
                 btq_vars, bt_mutex, bt_pc, bt_img, pool_vars, use_buf,
                 wtq_vars, wt_mutex, wt_pc, wt_img, wt_exit, proc, hist_vars>>
  /\ UNCHANGED <<app_vars, cfg_vars>>

\* prepare() when the encoder cannot be launched: subprocess.Popen raises in
\* WriterThread.__init__, inside BufferThread.__init__, before prepare()
\* assigns self._sink and before either thread's start().
PrepareFails ==
  /\ prod_pc = "idle" /\ sink = FALSE
  /\ bt_pc = "done" /\ wt_pc = "done"
  /\ prod_pc' = "prep_raise"
  /\ UNCHANGED <<svc_vars, w_index, w_frame, p_frame, p_img, p_ret,
                 btq_vars, bt_mutex, bt_pc, bt_img, pool_vars, use_buf,
                 wtq_vars, wt_mutex, wt_pc, wt_img, wt_exit, proc, hist_vars>>
  /\ UNCHANGED <<app_vars, cfg_vars>>

\* The exception that left prepare() arrives in its caller.
PrepareRaised ==
  /\ prod_pc = "prep_raise"
  /\ prod_pc' = "idle"
  /\ UNCHANGED <<svc_vars, w_index, w_frame, p_frame, p_img, p_ret,
                 btq_vars, bt_mutex, bt_pc, bt_img, pool_vars, use_buf,
                 wtq_vars, wt_mutex, wt_pc, wt_img, wt_exit, proc, hist_vars>>
  /\ UNCHANGED <<app_vars, cfg_vars>>

\* StorageService.write(index, frame) is entered.  The frame is either valid,
\* and then carries a content that identifies it within the session, or an
\* object self._convert raises on.  Writes stop once MaxIndex was used up.
WriteCall ==
  /\ prod_pc = "idle" /\ sink = TRUE /\ nextindex <= MaxIndex
  /\ \E i \in 0..MaxIndex, f \in {Len(pushed) + 1, Invalid} :
       /\ w_index' = i /\ w_frame' = f
  /\ prod_pc' = "w_loop"
  /\ w_e' = nextindex /\ w_len' = Len(pushed)
  /\ UNCHANGED <<svc_vars, p_frame, p_img, p_ret, btq_vars, bt_mutex, bt_pc, bt_img,
                 pool_vars, use_buf, wtq_vars, wt_mutex, wt_pc, wt_img, wt_exit, proc,
                 pushed, written, exhausted, ended>>
  /\ UNCHANGED <<app_vars, cfg_vars>>

\* write() while self._sink is None (before prepare, after close or after an
\* abort): the body raises, and in the handler `sink.signal()` on None raises
\* again, out of write().
WriteNoSink ==
  /\ prod_pc = "idle" /\ sink = FALSE
  /\ prod_pc' = "w_raise"
  /\ UNCHANGED <<svc_vars, w_index, w_frame, p_frame, p_img, p_ret,
                 btq_vars, bt_mutex, bt_pc, bt_img, pool_vars, use_buf,
                 wtq_vars, wt_mutex, wt_pc, wt_img, wt_exit, proc, hist_vars>>
  /\ UNCHANGED <<app_vars, cfg_vars>>

\* The exception that left write() arrives in its caller.
WriteRaised ==
  /\ prod_pc = "w_raise"
  /\ prod_pc' = "idle"
  /\ UNCHANGED <<svc_vars, w_index, w_frame, p_frame, p_img, p_ret,
                 btq_vars, bt_mutex, bt_pc, bt_img, pool_vars, use_buf,
                 wtq_vars, wt_mutex, wt_pc, wt_img, wt_exit, proc, hist_vars>>
  /\ UNCHANGED <<app_vars, cfg_vars>>

\* write(): one evaluation of `while index > self._nextindex`, followed by the
\* call of sink.push(self._empty), or by self._convert(frame) and the call of
\* sink.push; a raise of _convert enters the handler, which clears self._sink.
WriteLoop ==
  /\ prod_pc = "w_loop"
  /\ IF NeedsFiller(w_index, nextindex)
       THEN /\ p_frame' = Empty /\ p_ret' = "filler" /\ prod_pc' = "p_use_lock"
            /\ UNCHANGED <<sink, ended>>
       ELSE IF w_frame = Invalid
         THEN /\ sink' = FALSE /\ prod_pc' = "x_lock" /\ ended' = "aborting"
              /\ UNCHANGED <<p_frame, p_ret>>
         ELSE /\ p_frame' = w_frame /\ p_ret' = "frame" /\ prod_pc' = "p_use_lock"
              /\ UNCHANGED <<sink, ended>>
  /\ UNCHANGED <<nextindex, session, w_index, w_frame, p_img,
                 btq_vars, bt_mutex, bt_pc, bt_img, pool_vars, use_buf,
                 wtq_vars, wt_mutex, wt_pc, wt_img, wt_exit, proc,
                 pushed, written, w_e, w_len, exhausted>>
  /\ UNCHANGED <<app_vars, cfg_vars>>

\* A write() that ends the session when it returns.
WriteReturnStops ==
  /\ prod_pc = "w_ret"
  /\ prod_pc' = "idle" /\ DropLocals
  /\ sink' = FALSE
  /\ UNCHANGED <<nextindex, session,
                 btq_vars, bt_mutex, bt_pc, bt_img, pool_vars, use_buf,
                 wtq_vars, wt_mutex, wt_pc, wt_img, wt_exit, proc,
                 pushed, written, exhausted, ended>>
  /\ UNCHANGED <<app_vars, cfg_vars>>

\* write() returns to its caller.
WriteReturn ==
  /\ prod_pc = "w_ret"
  /\ prod_pc' = "idle" /\ DropLocals
  /\ UNCHANGED <<svc_vars, btq_vars, bt_mutex, bt_pc, bt_img, pool_vars, use_buf,
                 wtq_vars, wt_mutex, wt_pc, wt_img, wt_exit, proc,
                 pushed, written, exhausted, ended>>
  /\ UNCHANGED <<app_vars, cfg_vars>>

\* a slip: close() that pushes the sentinel but leaves self._sink in place
CloseCallKeepsSink ==
  /\ prod_pc = "idle" /\ sink = TRUE
  /\ p_frame' = NoneFrame /\ p_img' = NoBuf /\ p_ret' = "close"
  /\ prod_pc' = "p_lock" /\ ended' = "closing"
  /\ UNCHANGED <<sink, nextindex, session, w_index, w_frame,
                 btq_vars, bt_mutex, bt_pc, bt_img, pool_vars, use_buf,
                 wtq_vars, wt_mutex, wt_pc, wt_img, wt_exit, proc,
                 pushed, written, w_e, w_len, exhausted>>
  /\ UNCHANGED <<app_vars, cfg_vars>>

\* StorageService.close with a sink: self._sink = None, then sink.push(None).
CloseCall ==
  /\ prod_pc = "idle" /\ sink = TRUE
  /\ sink' = FALSE
  /\ p_frame' = NoneFrame /\ p_img' = NoBuf /\ p_ret' = "close"
  /\ prod_pc' = "p_lock" /\ ended' = "closing"
  /\ UNCHANGED <<nextindex, session, w_index, w_frame,
                 btq_vars, bt_mutex, bt_pc, bt_img, pool_vars, use_buf,
                 wtq_vars, wt_mutex, wt_pc, wt_img, wt_exit, proc,
                 pushed, written, w_e, w_len, exhausted>>
  /\ UNCHANGED <<app_vars, cfg_vars>>

\* close(): sink.wait() returns once the BufferThread has finished.
CloseWait ==
  /\ prod_pc = "c_wait" /\ bt_pc = "done"
  /\ prod_pc' = "idle" /\ ended' = "closed" /\ DropLocals
  /\ UNCHANGED <<svc_vars, btq_vars, bt_mutex, bt_pc, bt_img, pool_vars, use_buf,
                 wtq_vars, wt_mutex, wt_pc, wt_img, wt_exit, proc,
                 pushed, written, exhausted>>
  /\ UNCHANGED <<app_vars, cfg_vars>>

\* A close() that pushes its sentinel whether or not a sink is in place.
CloseNoSinkPushes ==
  /\ prod_pc = "idle" /\ sink = FALSE
  /\ p_frame' = NoneFrame /\ p_img' = NoBuf /\ p_ret' = "close"
  /\ prod_pc' = "p_lock" /\ ended' = "closing"
  /\ UNCHANGED <<sink, nextindex, session, w_index, w_frame,
                 btq_vars, bt_mutex, bt_pc, bt_img, pool_vars, use_buf,
                 wtq_vars, wt_mutex, wt_pc, wt_img, wt_exit, proc,
                 pushed, written, w_e, w_len, exhausted>>
  /\ UNCHANGED <<app_vars, cfg_vars>>

\* close() without a sink: nothing happens.
CloseNoSink ==
  /\ prod_pc = "idle" /\ sink = FALSE
  /\ UNCHANGED vars

\* write()'s handler: sink.signal() locks the BufferThread's mutex.
AbortLock ==
  /\ prod_pc = "x_lock" /\ bt_mutex = "free"
  /\ bt_mutex' = "prod" /\ prod_pc' = "x_signal"
  /\ UNCHANGED <<svc_vars, w_index, w_frame, p_frame, p_img, p_ret,
                 btq_vars, bt_pc, bt_img, pool_vars, use_buf,
                 wtq_vars, wt_mutex, wt_pc, wt_img, wt_exit, proc, hist_vars>>
  /\ UNCHANGED <<app_vars, cfg_vars>>

\* BufferThread.signal under the mutex: _toquit = True, wakeAll, unlock.
Signal ==
  /\ prod_pc = "x_signal" /\ bt_mutex = "prod"
  /\ bt_toquit' = TRUE
  /\ bt_pc' = WakeAll(bt_pc)
  /\ bt_mutex' = "free" /\ prod_pc' = "x_wait"
  /\ UNCHANGED <<svc_vars, w_index, w_frame, p_frame, p_img, p_ret,
                 bt_queue, bt_count, bt_img, pool_vars, use_buf,
                 wtq_vars, wt_mutex, wt_pc, wt_img, wt_exit, proc, hist_vars>>
  /\ UNCHANGED <<app_vars, cfg_vars>>

\* write()'s handler: sink.wait() returns once the BufferThread has finished.
AbortWait ==
  /\ prod_pc = "x_wait" /\ bt_pc = "done"
  /\ prod_pc' = "idle" /\ ended' = "aborted" /\ DropLocals
  /\ UNCHANGED <<svc_vars, btq_vars, bt_mutex, bt_pc, bt_img, pool_vars, use_buf,
                 wtq_vars, wt_mutex, wt_pc, wt_img, wt_exit, proc,
                 pushed, written, exhausted>>
  /\ UNCHANGED <<app_vars, cfg_vars>>

\* ---------------------------------------------------------------- BufferThread.push
\* push(frame), frame not None: self._use_buf.lock().
PushUseLock ==
  /\ prod_pc = "p_use_lock" /\ use_buf = "free"
  /\ use_buf' = "prod" /\ prod_pc' = "p_take"
  /\ UNCHANGED <<svc_vars, w_index, w_frame, p_frame, p_img, p_ret,
                 btq_vars, bt_mutex, bt_pc, bt_img, pool_vars,
                 wtq_vars, wt_mutex, wt_pc, wt_img, wt_exit, proc, hist_vars>>
  /\ UNCHANGED <<app_vars, cfg_vars>>

\* a slip: push() that keeps _use_buf locked after taking the buffer
PushTakeKeepsLock ==
  /\ prod_pc = "p_take" /\ use_buf = "prod"
  /\ IF in_buf = 0
       THEN /\ p_img' = NoBuf /\ exhausted' = TRUE
            /\ UNCHANGED <<buffer, in_buf>>
       ELSE /\ p_img' = Pop(buffer).value
            /\ buffer' = Pop(buffer).rest
            /\ in_buf' = in_buf - 1
            /\ UNCHANGED exhausted
  /\ prod_pc' = "p_copy"
  /\ UNCHANGED <<svc_vars, w_index, w_frame, p_frame, p_ret,
                 btq_vars, bt_mutex, bt_pc, bt_img, bufdata, nalloc, use_buf,
                 wtq_vars, wt_mutex, wt_pc, wt_img, wt_exit, proc,
                 pushed, written, w_e, w_len, ended>>
  /\ UNCHANGED <<app_vars, cfg_vars>>

\* push() under _use_buf: with an empty pool only an error is logged and img
\* stays None; otherwise img = self._buffer.pop() and _in_buf -= 1; unlock.
PushTake ==
  /\ prod_pc = "p_take" /\ use_buf = "prod"
  /\ IF in_buf = 0
       THEN /\ p_img' = NoBuf /\ exhausted' = TRUE
            /\ UNCHANGED <<buffer, in_buf>>
       ELSE /\ p_img' = Pop(buffer).value
            /\ buffer' = Pop(buffer).rest
            /\ in_buf' = in_buf - 1
            /\ UNCHANGED exhausted
  /\ use_buf' = "free" /\ prod_pc' = "p_copy"
  /\ UNCHANGED <<svc_vars, w_index, w_frame, p_frame, p_ret,
                 btq_vars, bt_mutex, bt_pc, bt_img, bufdata, nalloc,
                 wtq_vars, wt_mutex, wt_pc, wt_img, wt_exit, proc,
                 pushed, written, w_e, w_len, ended>>
  /\ UNCHANGED <<app_vars, cfg_vars>>

\* push(), no lock held: without a pool buffer img = frame.copy(), a newly
\* allocated array; with one, img[:] = frame overwrites the pool buffer.
PushCopy ==
  /\ prod_pc = "p_copy"
  /\ IF p_img = NoBuf
       THEN /\ p_img' = num_buffer + nalloc + 1
            /\ nalloc' = nalloc + 1
            /\ bufdata' = [bufdata EXCEPT ![num_buffer + nalloc + 1] = p_frame]
       ELSE /\ bufdata' = [bufdata EXCEPT ![p_img] = p_frame]
            /\ UNCHANGED <<p_img, nalloc>>
  /\ prod_pc' = "p_lock"
  /\ UNCHANGED <<svc_vars, w_index, w_frame, p_frame, p_ret,
                 btq_vars, bt_mutex, bt_pc, bt_img, buffer, in_buf, use_buf,
                 wtq_vars, wt_mutex, wt_pc, wt_img, wt_exit, proc, hist_vars>>
  /\ UNCHANGED <<app_vars, cfg_vars>>

\* push(): self._mutex.lock().
PushLock ==
  /\ prod_pc = "p_lock" /\ bt_mutex = "free"
  /\ bt_mutex' = "prod" /\ prod_pc' = "p_append"
  /\ UNCHANGED <<svc_vars, w_index, w_frame, p_frame, p_img, p_ret,
                 btq_vars, bt_pc, bt_img, pool_vars, use_buf,
                 wtq_vars, wt_mutex, wt_pc, wt_img, wt_exit, proc, hist_vars>>
  /\ UNCHANGED <<app_vars, cfg_vars>>

\* push() under _mutex: appendleft(img), _count += 1, wakeAll, unlock; then
\* the return into the caller: write() adds 1 to _nextindex and goes on with
\* its loop or returns, close() goes on to sink.wait().
PushAppend ==
  /\ prod_pc = "p_append" /\ bt_mutex = "prod"
  /\ bt_queue' = AppendLeft(bt_queue, p_img)
  /\ bt_count' = bt_count + 1
  /\ bt_pc' = WakeAll(bt_pc)
  /\ bt_mutex' = "free"
  /\ IF p_ret = "close"
       THEN /\ prod_pc' = "c_wait"
            /\ UNCHANGED <<nextindex, pushed>>
       ELSE /\ nextindex' = nextindex + 1
            /\ pushed' = Append(pushed, p_frame)
            /\ prod_pc' = IF p_ret = "filler" THEN "w_loop" ELSE "w_ret"
  /\ p_img' = NoBuf
  /\ UNCHANGED <<sink, session, w_index, w_frame, p_frame, p_ret,
                 bt_toquit, bt_img, pool_vars, use_buf,
                 wtq_vars, wt_mutex, wt_pc, wt_img, wt_exit, proc,
                 written, w_e, w_len, exhausted, ended>>
  /\ UNCHANGED <<app_vars, cfg_vars>>

\* A recycle() that puts the frame into the pool twice.
RecycleTwice ==
  /\ wt_pc = "recycle" /\ use_buf = "wt"
  /\ buffer' = Append(Append(buffer, wt_img), wt_img)
  /\ in_buf' = in_buf + 2
  /\ use_buf' = "free"
  /\ wt_img' = NoBuf /\ wt_pc' = "lock"
  /\ UNCHANGED <<svc_vars, prod_vars, btq_vars, bt_mutex, bt_pc, bt_img,
                 bufdata, nalloc, wtq_vars, wt_mutex, wt_exit, proc, hist_vars>>
  /\ UNCHANGED <<app_vars, cfg_vars>>

\* BufferThread.recycle(frame), called by the WriterThread: under _use_buf,
\* self._buffer.append(frame) and _in_buf += 1.
Recycle ==
  /\ wt_pc = "recycle" /\ use_buf = "wt"
  /\ buffer' = Append(buffer, wt_img)
  /\ in_buf' = in_buf + 1
  /\ use_buf' = "free"
  /\ wt_img' = NoBuf /\ wt_pc' = "lock"
  /\ UNCHANGED <<svc_vars, prod_vars, btq_vars, bt_mutex, bt_pc, bt_img,
                 bufdata, nalloc, wtq_vars, wt_mutex, wt_exit, proc, hist_vars>>
  /\ UNCHANGED <<app_vars, cfg_vars>>

\* ---------------------------------------------------------------- BufferThread.run
\* run(): self._mutex.lock(), and `if self._count == 0: self._signal.wait(mutex)`,
\* which gives the mutex up and blocks until a wakeAll.  The wait has no
\* timeout, and Qt's wait returns on a wake-up only; it does not raise, so the
\* `except` clause around it is never entered.
BTLock ==
  /\ bt_pc = "lock" /\ bt_mutex = "free"
  /\ IF bt_count = 0
       THEN bt_pc' = "wait" /\ UNCHANGED bt_mutex
       ELSE bt_pc' = "locked" /\ bt_mutex' = "bt"
  /\ UNCHANGED <<svc_vars, prod_vars, btq_vars, bt_img, pool_vars, use_buf,
                 wtq_vars, wt_mutex, wt_pc, wt_img, wt_exit, proc, hist_vars>>
  /\ UNCHANGED <<app_vars, cfg_vars>>

\* run(): a woken wait() takes the mutex again and returns.
BTWake ==
  /\ bt_pc = "woken" /\ bt_mutex = "free"
  /\ bt_pc' = "locked" /\ bt_mutex' = "bt"
  /\ UNCHANGED <<svc_vars, prod_vars, btq_vars, bt_img, pool_vars, use_buf,
                 wtq_vars, wt_mutex, wt_pc, wt_img, wt_exit, proc, hist_vars>>
  /\ UNCHANGED <<app_vars, cfg_vars>>

\* An abort that leaves the loop without a sentinel for the writer.
BTDequeueAbortJoins ==
  /\ bt_pc = "locked" /\ bt_mutex = "bt"
  /\ IF AbortSeen(bt_toquit, bt_count)
       THEN /\ bt_img' = NoBuf /\ bt_pc' = "join"
            /\ UNCHANGED <<bt_queue, bt_count>>
       ELSE /\ bt_img' = Pop(bt_queue).value
            /\ bt_queue' = Pop(bt_queue).rest
            /\ bt_count' = bt_count - 1
            /\ bt_pc' = "pass"
  /\ bt_mutex' = "free"
  /\ UNCHANGED <<svc_vars, prod_vars, bt_toquit, pool_vars, use_buf,
                 wtq_vars, wt_mutex, wt_pc, wt_img, wt_exit, proc, hist_vars>>
  /\ UNCHANGED <<app_vars, cfg_vars>>

\* run() under the mutex: with _toquit set, unlock and go on to
\* self._writer.push(None); otherwise img = self._queue.pop(), _count -= 1,
\* unlock and go on to self._writer.push(img).
BTDequeue ==
  /\ bt_pc = "locked" /\ bt_mutex = "bt"
  /\ IF AbortSeen(bt_toquit, bt_count)
       THEN /\ bt_img' = NoBuf /\ bt_pc' = "quit"
            /\ UNCHANGED <<bt_queue, bt_count>>
       ELSE /\ bt_img' = Pop(bt_queue).value
            /\ bt_queue' = Pop(bt_queue).rest
            /\ bt_count' = bt_count - 1
            /\ bt_pc' = "pass"
  /\ bt_mutex' = "free"
  /\ UNCHANGED <<svc_vars, prod_vars, bt_toquit, pool_vars, use_buf,
                 wtq_vars, wt_mutex, wt_pc, wt_img, wt_exit, proc, hist_vars>>
  /\ UNCHANGED <<app_vars, cfg_vars>>

\* WriterThread.push called by run(): self._mutex.lock() of the writer.
BTPassLock ==
  /\ bt_pc \in {"pass", "quit"} /\ wt_mutex = "free"
  /\ wt_mutex' = "bt"
  /\ bt_pc' = IF bt_pc = "pass" THEN "pass_locked" ELSE "quit_locked"
  /\ UNCHANGED <<svc_vars, prod_vars, btq_vars, bt_mutex, bt_img, pool_vars, use_buf,
                 wtq_vars, wt_pc, wt_img, wt_exit, proc, hist_vars>>
  /\ UNCHANGED <<app_vars, cfg_vars>>

\* A push that forgets `self._count += 1`.
BTPassNoCount ==
  /\ bt_pc \in {"pass_locked", "quit_locked"} /\ wt_mutex = "bt"
  /\ wt_queue' = AppendLeft(wt_queue, bt_img)
  /\ UNCHANGED <<wt_count, wt_toquit>>
  /\ wt_pc' = WakeAll(wt_pc)
  /\ wt_mutex' = "free"
  /\ bt_pc' = IF bt_img = NoBuf THEN "join" ELSE "lock"
  /\ bt_img' = NoBuf
  /\ UNCHANGED <<svc_vars, prod_vars, btq_vars, bt_mutex, pool_vars, use_buf,
                 wt_img, wt_exit, proc, hist_vars>>
  /\ UNCHANGED <<app_vars, cfg_vars>>

\* WriterThread.push under the writer's mutex: appendleft, _count += 1,
\* wakeAll, unlock; back in run(), a frame continues the loop, while None or
\* the abort leaves it for the `finally` clause.
BTPass ==
  /\ bt_pc \in {"pass_locked", "quit_locked"} /\ wt_mutex = "bt"
  /\ wt_queue' = AppendLeft(wt_queue, bt_img)
  /\ wt_count' = wt_count + 1
  /\ UNCHANGED wt_toquit
  /\ wt_pc' = WakeAll(wt_pc)
  /\ wt_mutex' = "free"
  /\ bt_pc' = IF bt_img = NoBuf THEN "join" ELSE "lock"
  /\ bt_img' = NoBuf
  /\ UNCHANGED <<svc_vars, prod_vars, btq_vars, bt_mutex, pool_vars, use_buf,
                 wt_img, wt_exit, proc, hist_vars>>
  /\ UNCHANGED <<app_vars, cfg_vars>>

\* run()'s finally clause: writer.wait() returns once the writer has finished.
BTJoin ==
  /\ bt_pc = "join" /\ wt_pc = "done"
  /\ bt_pc' = "done"
  /\ UNCHANGED <<svc_vars, prod_vars, btq_vars, bt_mutex, bt_img, pool_vars, use_buf,
                 wtq_vars, wt_mutex, wt_pc, wt_img, wt_exit, proc, hist_vars>>
  /\ UNCHANGED <<app_vars, cfg_vars>>

\* ---------------------------------------------------------------- WriterThread.run
\* run(): self._mutex.lock(), and `if self._count == 0: self._signal.wait(mutex)`.
WTLock ==
  /\ wt_pc = "lock" /\ wt_mutex = "free"
  /\ IF wt_count = 0
       THEN wt_pc' = "wait" /\ UNCHANGED wt_mutex
       ELSE wt_pc' = "locked" /\ wt_mutex' = "wt"
  /\ UNCHANGED <<svc_vars, prod_vars, btq_vars, bt_mutex, bt_pc, bt_img,
                 pool_vars, use_buf, wtq_vars, wt_img, wt_exit, proc, hist_vars>>
  /\ UNCHANGED <<app_vars, cfg_vars>>

\* run(): a woken wait() takes the mutex again and returns.
WTWake ==
  /\ wt_pc = "woken" /\ wt_mutex = "free"
  /\ wt_pc' = "locked" /\ wt_mutex' = "wt"
  /\ UNCHANGED <<svc_vars, prod_vars, btq_vars, bt_mutex, bt_pc, bt_img,
                 pool_vars, use_buf, wtq_vars, wt_img, wt_exit, proc, hist_vars>>
  /\ UNCHANGED <<app_vars, cfg_vars>>

\* run() under the mutex, with _toquit False: img = self._queue.pop(),
\* _count -= 1, unlock; None leaves the loop.  (Nothing in lab_grab calls
\* WriterThread.signal, so in Spec the writer's _toquit stays False.)
WTDequeue ==
  /\ wt_pc = "locked" /\ wt_mutex = "wt" /\ ~wt_toquit
  /\ wt_img' = Pop(wt_queue).value
  /\ wt_queue' = Pop(wt_queue).rest
  /\ wt_count' = wt_count - 1
  /\ UNCHANGED wt_toquit
  /\ wt_mutex' = "free"
  /\ IF Pop(wt_queue).value = NoBuf
       THEN wt_pc' = "close" /\ wt_exit' = "sentinel"
       ELSE wt_pc' = "write" /\ UNCHANGED wt_exit
  /\ UNCHANGED <<svc_vars, prod_vars, btq_vars, bt_mutex, bt_pc, bt_img,
                 pool_vars, use_buf, proc, hist_vars>>
  /\ UNCHANGED <<app_vars, cfg_vars>>

\* run(): self._sink.write(img.tobytes()) puts the buffer's content on the
\* encoder's stdin; the thread goes on to self._buffer.recycle(img).
WTWrite ==
  /\ wt_pc = "write"
  /\ written' = Append(written, bufdata[wt_img])
  /\ wt_pc' = "recycle_lock"
  /\ UNCHANGED <<svc_vars, prod_vars, btq_vars, bt_mutex, bt_pc, bt_img,
                 pool_vars, use_buf, wtq_vars, wt_mutex, wt_img, wt_exit, proc,
                 pushed, w_e, w_len, exhausted, ended>>
  /\ UNCHANGED <<app_vars, cfg_vars>>

\* run(): self._sink.write raises (the encoder has gone away): the trace is
\* printed and the loop is left; the buffer is not recycled.
WTWriteFails ==
  /\ wt_pc = "write"
  /\ wt_pc' = "close" /\ wt_exit' = "error"
  /\ UNCHANGED <<svc_vars, prod_vars, btq_vars, bt_mutex, bt_pc, bt_img,
                 pool_vars, use_buf, wtq_vars, wt_mutex, wt_img, proc, hist_vars>>
  /\ UNCHANGED <<app_vars, cfg_vars>>

\* recycle(), called from run(): self._use_buf.lock().
WTRecycleLock ==
  /\ wt_pc = "recycle_lock" /\ use_buf = "free"
  /\ use_buf' = "wt" /\ wt_pc' = "recycle"
  /\ UNCHANGED <<svc_vars, prod_vars, btq_vars, bt_mutex, bt_pc, bt_img,
                 pool_vars, wtq_vars, wt_mutex, wt_img, wt_exit, proc, hist_vars>>
  /\ UNCHANGED <<app_vars, cfg_vars>>

\* run() after the loop: _terminate_safely's proc.communicate(timeout) closes
\* the encoder's stdin and the process exits in time; self._proc = None and
\* the thread ends.
WTTerminate ==
  /\ wt_pc = "close"
  /\ proc' = "closed" /\ wt_pc' = "done" /\ wt_img' = NoBuf
  /\ UNCHANGED <<svc_vars, prod_vars, btq_vars, bt_mutex, bt_pc, bt_img,
                 pool_vars, use_buf, wtq_vars, wt_mutex, wt_exit, hist_vars>>
  /\ UNCHANGED <<app_vars, cfg_vars>>

\* run() after the loop: proc.communicate(timeout) has closed the encoder's
\* stdin but the process does not exit in time.  `except TimeoutExpired`
\* names nothing the module imports, so the handler is not entered: the
\* exception leaves run() and the thread ends with the process still running.
WTTerminateTimeout ==
  /\ wt_pc = "close"
  /\ proc' = "running" /\ wt_pc' = "done" /\ wt_img' = NoBuf
  /\ UNCHANGED <<svc_vars, prod_vars, btq_vars, bt_mutex, bt_pc, bt_img,
                 pool_vars, use_buf, wtq_vars, wt_mutex, wt_exit, hist_vars>>
  /\ UNCHANGED <<app_vars, cfg_vars>>

\* ---------------------------------------------------------------- specification
Producer ==
  \/ PrepareRaised
  \/ WriteLoop \/ WriteReturn \/ WriteRaised \/ CloseWait \/ AbortLock \/ Signal \/ AbortWait
  \/ PushUseLock \/ PushTake \/ PushCopy \/ PushLock \/ PushAppend

BufferThread ==
  \/ BTLock \/ BTWake \/ BTDequeue \/ BTPassLock \/ BTPass \/ BTJoin

WriterThread ==
  \/ WTLock \/ WTWake \/ WTDequeue \/ WTWrite \/ WTWriteFails
  \/ WTRecycleLock \/ Recycle \/ WTTerminate \/ WTTerminateTimeout

Next ==
  \/ Prepare \/ PrepareFails
  \/ WriteCall \/ WriteNoSink \/ CloseCall \/ CloseNoSink
  \/ Producer \/ BufferThread \/ WriterThread

Spec == Init /\ [][Next]_vars

\* ---------------------------------------------------------------- WriterThread.signal
\* WriterThread.signal(), called while the writer runs: under the writer's
\* mutex, self._toquit = True and wakeAll().  Nothing in the repository calls
\* it; AbortSpec adds the call to Spec.
WriterSignal ==
  /\ wt_pc # "done" /\ ~wt_toquit /\ wt_mutex = "free"
  /\ wt_toquit' = TRUE
  /\ wt_pc' = WakeAll(wt_pc)
  /\ UNCHANGED <<svc_vars, prod_vars, btq_vars, bt_mutex, bt_pc, bt_img,
                 pool_vars, use_buf, wt_queue, wt_count, wt_mutex, wt_img,
                 wt_exit, proc, hist_vars>>
  /\ UNCHANGED <<app_vars, cfg_vars>>

\* run() under the mutex, with _toquit True: self._container.close() raises
\* AttributeError, as a WriterThread has no _container; the exception leaves
\* run() before self._mutex.unlock() and before _terminate_safely, and the
\* thread ends.
WTQuit ==
  /\ wt_pc = "locked" /\ wt_mutex = "wt" /\ wt_toquit
  /\ wt_pc' = "done" /\ wt_exit' = "raised"
  /\ UNCHANGED <<svc_vars, prod_vars, btq_vars, bt_mutex, bt_pc, bt_img,
                 pool_vars, use_buf, wtq_vars, wt_mutex, wt_img, proc, hist_vars>>
  /\ UNCHANGED <<app_vars, cfg_vars>>

AbortNext == Next \/ WriterSignal \/ WTQuit

AbortSpec == Init /\ [][AbortNext]_vars

\* ---------------------------------------------------------------- application
\* AppSpec follows the handlers that DeviceControl and SessionManager run on
\* the GUI thread, one handler a step (two for _finalizeAcquisition, which
\* blocks inside close()).  Of the service the handlers read and write
\* self._sink and self._nextindex; the FIFOs, the pool and the two threads
\* are followed in Spec and rest here.  A device is open (the mode commands
\* are disabled without one), and the frames are the arrays the driver
\* delivers, which convert and copy without raising.

\* the variables the handlers of AppSpec leave alone
rest_vars == <<cfg_vars, prod_pc, w_index, w_frame, p_frame, p_img, p_ret,
               bt_queue, bt_count, bt_mutex, bt_toquit, bt_pc, bt_img,
               buffer, in_buf, use_buf, bufdata, nalloc,
               wt_queue, wt_count, wt_toquit, wt_mutex, wt_pc, wt_img, wt_exit, proc,
               written, w_e, w_len, exhausted>>

\* n zeroed filler frames
Fillers(n) == [k \in 1..n |-> Empty]

\* StorageService.write(index, frame) as a whole, on st = [sink, nextindex,
\* pushed]: without a sink it raises and changes nothing; with one it pushes
\* the fillers up to index and the frame, and counts each push.
WriteEffect(st, index) ==
  IF ~st.sink
    THEN st
    ELSE LET gap == IF NeedsFiller(index, st.nextindex)
                      THEN index - st.nextindex ELSE 0
         IN [st EXCEPT !.nextindex = @ + gap + 1,
                       !.pushed = @ \o Fillers(gap) \o <<Len(@) + 1>>]

\* frameReady.emit(index, frame) calls write once for each of its n
\* connections to it
RECURSIVE Emit(_, _, _)
Emit(st, index, n) ==
  IF n = 0 THEN st ELSE Emit(WriteEffect(st, index), index, n - 1)

\* frameReady.disconnect(self._storage.write): without a connection the
\* TypeError is caught; with several, PyQt removes one of them or all.
Disconnect ==
  connected' \in (IF connected = 0 THEN {0} ELSE {connected - 1, 0})

\* SessionManager._initializeAcquisition(descriptor, store_frames), the slot
\* of acquisitionReady: with store_frames it calls storage.prepare(), which
\* puts a new BufferThread into self._sink whether or not one is in place and
\* restarts the expected index, and connects frameReady to write once more.
InitializeAcquisition(store_frames) ==
  IF store_frames
    THEN /\ connected < MaxRepeat
         /\ sink => orphans < MaxRepeat
         /\ sink' = TRUE /\ nextindex' = FirstIndex
         /\ session' = IF session = 0 THEN 1 ELSE 2
         /\ pushed' = <<>> /\ ended' = "no"
         /\ orphans' = IF sink THEN orphans + 1 ELSE orphans
         /\ connected' = connected + 1
    ELSE UNCHANGED <<sink, nextindex, session, pushed, ended, orphans, connected>>

\* what one self.updatedAcquisitionMode.emit(oldmode, mode) adds to the
\* emissions of a call
updatedAcquisitionModeTwice(oldmode, m) == <<<<oldmode, m>>, <<oldmode, m>>>>

updatedAcquisitionMode(oldmode, m) == <<<<oldmode, m>>>>

\* A slot that leaves the other button enabled when an acquisition starts.
ButtonEnabledAlways(b, enabled, oldmode, newmode) ==
  IF oldmode = b \/ newmode = b THEN enabled
  ELSE IF oldmode = IDLE THEN enabled
  ELSE IF newmode = IDLE THEN TRUE
  ELSE enabled

\* AcquireButton.updateWithAcquisitionMode(oldmode, newmode) of the button
\* whose LABEL_START is b: what it makes of isEnabled().  A transition
\* between the two acquisitions raises before any change.
ButtonEnabled(b, enabled, oldmode, newmode) ==
  IF oldmode = b \/ newmode = b THEN enabled
  ELSE IF oldmode = IDLE THEN FALSE
  ELSE IF newmode = IDLE THEN TRUE
  ELSE enabled

\* the same slot: what it makes of text(); LABEL_STOP is IDLE
ButtonText(b, text, oldmode, newmode) ==
  IF oldmode = b
    THEN IF newmode = IDLE THEN b ELSE text
    ELSE IF newmode = b THEN IDLE ELSE text

\* the slots of updatedAcquisitionMode(mode, m) in the buttons and in the
\* device selector, run by a call that emits it
Slots(m) ==
  IF m # mode /\ m \in AcquisitionModes
    THEN /\ btn_text' = [b \in Buttons |-> ButtonText(b, btn_text[b], mode, m)]
         /\ btn_enabled' =
              [b \in Buttons |-> ButtonEnabled(b, btn_enabled[b], mode, m)]
         /\ sel_enabled' = (m = IDLE)
    ELSE UNCHANGED <<btn_text, btn_enabled, sel_enabled>>

\* the record of a call of setAcquisitionMode(m)
Request(m, raised, updated) ==
  [mode |-> m, raised |-> raised, updated |-> updated]

\* DeviceControl.setAcquisitionMode(m) with _startAcquisitionMode.  The
\* current mode: nothing.  IDLE: device.stop() and the strobe is set to
\* __prev_strobe, after which the driver hands over the None frame that
\* acquisitionEnded answers.  FOCUS or GRAB: device.strobe is put into
\* __prev_strobe (an attribute that exists from the first start on, and is
\* read only after one) and set for the mode, acquisitionReady is emitted
\* with store_frames = (m == GRAB), its slot runs, then device.start().  Any
\* other name: ValueError, before the mode is assigned or a signal emitted.
ChangeMode(m) ==
  IF m = mode
    THEN /\ called' = Request(m, FALSE, <<>>)
         /\ UNCHANGED <<sink, nextindex, session, pushed, ended, mode, grabbing,
                        ending, connected, orphans, strobe, prev_strobe, strobe0>>
    ELSE IF m = IDLE
      THEN /\ ending < MaxRepeat
           /\ strobe' = prev_strobe
           /\ mode' = IDLE /\ grabbing' = FALSE /\ ending' = ending + 1
           /\ called' = Request(m, FALSE, updatedAcquisitionMode(mode, m))
           /\ UNCHANGED <<sink, nextindex, session, pushed, ended,
                          connected, orphans, prev_strobe, strobe0>>
      ELSE IF m \in {FOCUS, GRAB}
        THEN /\ prev_strobe' = strobe
             /\ strobe' = requires_strobe(strobe_mode, m)
             /\ strobe0' = IF mode = IDLE THEN strobe ELSE strobe0
             /\ InitializeAcquisition(m = GRAB)
             /\ mode' = m /\ grabbing' = TRUE
             /\ called' = Request(m, FALSE, updatedAcquisitionMode(mode, m))
             /\ UNCHANGED ending
        ELSE /\ called' = Request(m, TRUE, <<>>)
             /\ UNCHANGED <<sink, nextindex, session, pushed, ended, mode,
                            grabbing, ending, connected, orphans, strobe,
                            prev_strobe, strobe0>>

\* setAcquisitionMode(m) called by a command of the user; a change of mode
\* ends with an "info" message.
SetAcquisitionMode(m) ==
  /\ gui = "idle"
  /\ ChangeMode(m)
  /\ Slots(m)
  /\ message' = IF m = mode \/ m \notin AcquisitionModes THEN message ELSE "info"
  /\ UNCHANGED <<gui, interrupt, strobe_mode, dev_open, rest_vars>>

\* SelectionModel.setValue(v) of the strobe setting, with v one of its
\* options: the value is stored and reported.
SetStrobeMode(v) ==
  /\ gui = "idle"
  /\ strobe_mode' = v
  /\ message' = "info"
  /\ UNCHANGED <<sink, nextindex, session, pushed, ended, mode, grabbing,
                 ending, connected, gui, orphans, interrupt, strobe,
                 prev_strobe, strobe0, called, btn_vars, rest_vars>>

\* StorageService.interruptAcquisition is emitted while a session runs, and
\* the call of its slot is queued.  The signal is a public attribute of the
\* service; the service itself has no statement that emits it.
InterruptAcquisition ==
  /\ sink /\ ~interrupt
  /\ interrupt' = TRUE
  /\ UNCHANGED <<sink, nextindex, session, pushed, ended, mode, grabbing,
                 ending, connected, gui, orphans, message, ctl_vars,
                 btn_vars, rest_vars>>

\* A slot that reports the error and leaves the acquisition running.
DealWithEncodingErrorOnlyReports ==
  /\ gui = "idle" /\ interrupt
  /\ interrupt' = FALSE
  /\ message' = "error"
  /\ UNCHANGED <<sink, nextindex, session, pushed, ended, mode, grabbing,
                 ending, connected, gui, orphans, ctl_vars, btn_vars,
                 rest_vars>>

\* SessionManager._dealWithEncodingError(msg), the slot of
\* interruptAcquisition: setAcquisitionMode(IDLE), then the "error" message.
DealWithEncodingError ==
  /\ gui = "idle" /\ interrupt
  /\ interrupt' = FALSE
  /\ ChangeMode(IDLE)
  /\ Slots(IDLE)
  /\ message' = "error"
  /\ UNCHANGED <<gui, strobe_mode, dev_open, rest_vars>>

\* DeviceControl._frameReadyCallback with a frame: frameReady is emitted with
\* the driver's frame index and the frame (the signature of ic_grab's
\* frameReady, which write(index, frame) takes), and every connection calls
\* write(index, frame).
FrameReady ==
  /\ gui = "idle" /\ grabbing
  /\ nextindex + connected <= MaxIndex + 1
  /\ \E i \in 0..(MaxIndex + 1 - connected) :
       LET st == Emit([sink |-> sink, nextindex |-> nextindex, pushed |-> pushed],
                      i, connected)
       IN nextindex' = st.nextindex /\ pushed' = st.pushed
  /\ UNCHANGED <<sink, session, ended, app_vars, rest_vars>>

\* DeviceControl._frameReadyCallback with None: acquisitionEnded is emitted
\* and _finalizeAcquisition begins.  With the service running it calls
\* close(), which clears self._sink, pushes the sentinel and waits for the
\* threads; otherwise it goes on to the disconnect at once.
AcquisitionEnded ==
  /\ gui = "idle" /\ ending > 0
  /\ ending' = ending - 1
  /\ IF sink
       THEN /\ sink' = FALSE /\ ended' = "closing" /\ gui' = "closing"
            /\ UNCHANGED connected
       ELSE /\ Disconnect
            /\ UNCHANGED <<sink, ended, gui>>
  /\ UNCHANGED <<nextindex, session, pushed, mode, grabbing, orphans,
                 interrupt, message, ctl_vars, btn_vars, rest_vars>>

\* _finalizeAcquisition, second half: close() has returned, and frameReady is
\* disconnected from write.
FinalizeReturn ==
  /\ gui = "closing"
  /\ ended' = "closed" /\ gui' = "idle"
  /\ Disconnect
  /\ UNCHANGED <<sink, nextindex, session, pushed, mode, grabbing, ending,
                 orphans, interrupt, message, ctl_vars, btn_vars, rest_vars>>

AppNext ==
  \/ \E m \in AcquisitionModes : SetAcquisitionMode(m)
  \/ FrameReady \/ AcquisitionEnded \/ FinalizeReturn
  \/ InterruptAcquisition \/ DealWithEncodingError

AppSpec == Init /\ [][AppNext]_vars

\* DeviceControl under any caller: every name may be requested, the strobe
\* setting may change between the calls, and the ends of the acquisitions
\* are handled; no frame is delivered.
ControlNext ==
  \/ \E m \in ModeNames : SetAcquisitionMode(m)
  \/ \E v \in StrobeModes : SetStrobeMode(v)
  \/ AcquisitionEnded \/ FinalizeReturn

ControlSpec == Init /\ [][ControlNext]_vars

\* ---------------------------------------------------------------- buttons
\* AcquireButton.dispatchRequest of the button b, the slot of its clicked
\* signal: an enabled button requests the mode that its text names.
Click(b) ==
  /\ btn_enabled[b]
  /\ SetAcquisitionMode(btn_text[b])

\* DeviceControl.openDevice, requested by the device selector or by loading
\* a configuration (both disabled while an acquisition runs): a device that
\* is open is closed first; openedDevice enables both buttons.
OpenDevice ==
  /\ gui = "idle" /\ sel_enabled
  /\ dev_open' = TRUE
  /\ btn_enabled' = [b \in Buttons |-> TRUE]
  /\ message' = "info"
  /\ UNCHANGED <<sink, nextindex, session, pushed, ended, mode, grabbing,
                 ending, connected, gui, orphans, interrupt, ctl_vars,
                 btn_text, sel_enabled, rest_vars>>

\* DeviceControl.closeDevice with a device open, requested by the device
\* selector: closedDevice disables both buttons.
CloseDevice ==
  /\ gui = "idle" /\ sel_enabled /\ dev_open
  /\ dev_open' = FALSE
  /\ btn_enabled' = [b \in Buttons |-> FALSE]
  /\ message' = "info"
  /\ UNCHANGED <<sink, nextindex, session, pushed, ended, mode, grabbing,
                 ending, connected, gui, orphans, interrupt, ctl_vars,
                 btn_text, sel_enabled, rest_vars>>

\* the application driven through its buttons: clicks on FOCUS and GRAB,
\* the device opened and closed, the strobe setting changed, and the ends of
\* the acquisitions handled
ButtonNext ==
  \/ \E b \in Buttons : Click(b)
  \/ OpenDevice \/ CloseDevice
  \/ \E v \in StrobeModes : SetStrobeMode(v)
  \/ AcquisitionEnded \/ FinalizeReturn

ButtonSpec == Init /\ [][ButtonNext]_vars

\* ---------------------------------------------------------------- availability
\* the variables of a recording, which a probe leaves alone
run_vars == <<svc_vars, prod_vars, btq_vars, bt_mutex, bt_pc, bt_img,
              pool_vars, use_buf, wtq_vars, wt_mutex, wt_pc, wt_img, wt_exit,
              proc, hist_vars, app_vars>>

\* Devices.check_availability(device): what a run of it can return.  "None"
\* and "CPU" are always there; the answers for QSV (a trial encode) and NVIDIA
\* (nvidia-smi) are the machine's at the time of the run; any other name is
\* answered with False.
check_availability(device) ==
  IF device \in {NONE, CPU} THEN {"True"}
  ELSE IF device \in {QSV, NVIDIA} THEN {"True", "False"}
  ELSE {"False"}

\* An available() that asks the machine at every call.
availableUncached(device) ==
  /\ probes[device] < MaxProbes
  /\ \E r \in check_availability(device) :
       availability' = [availability EXCEPT ![device] = r]
  /\ probes' = [probes EXCEPT ![device] = @ + 1]
  /\ returned' = [device |-> device, value |-> availability'[device]]
  /\ UNCHANGED <<enc_vars, opt_vars, ui_vars, run_vars>>

\* Devices.available(device): a name that is not a key of _availability is
\* probed and the answer stored; the stored answer is returned.
available(device) ==
  /\ IF availability[device] = "absent"
       THEN /\ probes[device] < MaxProbes
            /\ \E r \in check_availability(device) :
                 availability' = [availability EXCEPT ![device] = r]
            /\ probes' = [probes EXCEPT ![device] = @ + 1]
       ELSE UNCHANGED <<availability, probes>>
  /\ returned' = [device |-> device, value |-> availability'[device]]
  /\ UNCHANGED <<enc_vars, opt_vars, ui_vars, run_vars>>

ProbeNext == \E device \in DeviceNames : available(device)

ProbeSpec == Init /\ [][ProbeNext]_vars

\* ---------------------------------------------------------------- settings
\* the contents DEFAULT_ENCODERS can have: the encoders of BASE_ENCODER_LIST
\* that passed check_availability() when the class was made, in its order.
\* At least one passed, as __init__ takes DEFAULT_ENCODERS[0].
Passed(S) == SelectSeq(BASE_ENCODER_LIST, LAMBDA e : e \in S)
EncoderLists ==
  {Passed(S) : S \in (SUBSET {RAW_VIDEO, MJPEG_CPU, MJPEG_QSV, H264_NVENC}) \ {{}}}

\* what setEncoder is called with: a string, which is the description of one
\* of the module's encoders or of none, or an Encoder object
EncoderValues ==
  {[isstr |-> TRUE, str |-> description(e), obj |-> e] :
        e \in {RAW_VIDEO, MJPEG_CPU, MJPEG_QSV, H264_NVENC}}
  \cup {[isstr |-> TRUE, str |-> <<"FFV1", " (*", ".mkv", ")">>, obj |-> RAW_VIDEO]}
  \cup {[isstr |-> FALSE, str |-> <<>>, obj |-> e] :
        e \in {RAW_VIDEO, MJPEG_CPU, MJPEG_QSV, H264_NVENC}}

\* the qualities tried: the ends of QUALITY_RANGE, the initial value, and
\* the integers next to the range on either side
QualityValues ==
  {QUALITY_RANGE[1] - 1, QUALITY_RANGE[1], 75, QUALITY_RANGE[2],
   QUALITY_RANGE[2] + 1}

\* StorageService.list_encoders()
list_encoders == encoders

\* the encoders of list whose description is the string text
Described(list, text) == SelectSeq(list, LAMBDA e : description(e) = text)

\* setEncoder(value) raises ValueError: a string that describes no encoder of
\* list_encoders()
Rejected(value) == value.isstr /\ Described(list_encoders, value.str) = <<>>

\* A setEncoder that falls back to the first encoder for an unknown string.
SelectedOrFirst(value) ==
  IF value.isstr
    THEN IF Rejected(value) THEN list_encoders[1]
         ELSE Head(Described(list_encoders, value.str))
    ELSE value.obj

\* self._encoder after setEncoder(value): a string selects the first encoder
\* of list_encoders() it describes, and is refused when there is none; any
\* other value is stored as it is.
Selected(value) ==
  IF value.isstr
    THEN IF Rejected(value) THEN encoder
         ELSE Head(Described(list_encoders, value.str))
    ELSE value.obj

\* what a call of setEncoder(value) does besides the assignment: the raise
\* comes before everything; otherwise updatedEncoder is emitted with the
\* new self._encoder and updateFileName() is called
EncoderCall(value) ==
  IF Rejected(value)
    THEN [raised |-> TRUE, updated |-> <<>>, filename |-> FALSE]
    ELSE [raised |-> FALSE, updated |-> <<Selected(value)>>, filename |-> TRUE]

\* StorageService.setEncoder(value)
SetEncoder(value) ==
  /\ encoder' = Selected(value)
  /\ enc_call' = EncoderCall(value)
  /\ UNCHANGED <<encoders, quality, dev_vars, opt_vars, ui_vars, run_vars>>

\* StorageService.setQuality(value), value an integer: int(value) is stored
\* as it is, whatever QUALITY_RANGE says.
SetQuality(value) ==
  /\ quality' = value
  /\ UNCHANGED <<encoders, encoder, enc_call, dev_vars, opt_vars, ui_vars,
                 run_vars>>

\* StorageService.load_dict(cfg) for the keys "encoder" and "quality" of cfg:
\* setattr in this order, so that an encoder that is refused leaves the
\* quality unset.
LoadDict(keys, value, q) ==
  /\ encoder' = IF "encoder" \in keys THEN Selected(value) ELSE encoder
  /\ quality' = IF "quality" \in keys /\ ~("encoder" \in keys /\ Rejected(value))
                  THEN q ELSE quality
  /\ enc_call' = IF "encoder" \in keys THEN EncoderCall(value) ELSE enc_call
  /\ UNCHANGED <<encoders, dev_vars, opt_vars, ui_vars, run_vars>>

SettingsNext ==
  \/ \E value \in EncoderValues : SetEncoder(value)
  \/ \E q \in QualityValues : SetQuality(q)
  \/ \E keys \in SUBSET {"encoder", "quality"}, value \in EncoderValues,
        q \in QualityValues : LoadDict(keys, value, q)

\* the service as constructed on any machine
SettingsInit ==
  /\ RecorderInit
  /\ \E list \in EncoderLists : EncoderInit(list)
  /\ OptionInit(<<75, 75>>)
  /\ ValueInit(<<>>)

SettingsSpec == SettingsInit /\ [][SettingsNext]_vars

\* ---------------------------------------------------------------- options
\* Encoder.as_ffmpeg_command: self.quality_option(quality), here for both
\* settings of q_in
QualityOption(f) ==
  /\ q_fun' = f
  /\ q_out' = <<quality_option(f, q_in[1]), quality_option(f, q_in[2])>>
  /\ UNCHANGED <<q_in, dev_vars, enc_vars, ui_vars, run_vars>>

OptionNext == \E f \in QualityFunctions : QualityOption(f)

\* any two settings of the selector
OptionSpecInit ==
  /\ RecorderInit
  /\ EncoderInit(BASE_ENCODER_LIST)
  /\ \E a \in Qualities, b \in Qualities : OptionInit(<<a, b>>)
  /\ ValueInit(<<>>)

OptionSpec == OptionSpecInit /\ [][OptionNext]_vars

\* ---------------------------------------------------------------- value models
\* the values of a setting, and the ranges (min, max) a device reports
Values == 0..MaxValue
Ranges == {r \in Values \X Values : r[1] <= r[2]}

\* A clamp that forgets the upper limit.
ClampedBelowOnly(value, m, M) ==
  IF m > value THEN m ELSE value

\* setPreferred's `if m > value: value = m / elif M < value: value = M`
Clamped(value, m, M) ==
  IF m > value THEN m ELSE IF M < value THEN M ELSE value

\* ValueModel.getRange(): DEFAULT_RANGE without a device and when
\* getRangeImpl raises (ok is false), else what getRangeImpl returns
getRange(ok) ==
  IF ~vm_device THEN vm_default ELSE IF ok THEN vm_range ELSE vm_default

\* DeviceSetting.updateWithDevice(device): the setting is bound to a device
\* that reports the range r, or to None.
UpdateWithDevice(open, r) ==
  /\ vm_device' = open
  /\ vm_range' = IF open THEN r ELSE <<>>
  /\ UNCHANGED <<vm_default, vm_preferred, vm_set>>
  /\ UNCHANGED <<dev_vars, enc_vars, opt_vars, run_vars>>

\* ValueModel.setPreferred(value): the value is stored; with a device the
\* range is asked for and the value, moved to the nearer limit when it is
\* outside, goes to setValueImpl.  A range of None fails to unpack, which is
\* caught and reported, and nothing is forwarded.
SetPreferred(value, ok) ==
  /\ vm_preferred' = <<value>>
  /\ LET r == getRange(ok)
     IN vm_set' =
          IF ~vm_device \/ r = <<>>
            THEN [value |-> <<value>>, range |-> <<>>, forwarded |-> <<>>,
                  warning |-> FALSE]
            ELSE [value |-> <<value>>, range |-> r,
                  forwarded |-> <<Clamped(value, r[1], r[2])>>,
                  warning |-> (r[1] > value \/ r[2] < value)]
  /\ UNCHANGED <<vm_device, vm_range, vm_default>>
  /\ UNCHANGED <<dev_vars, enc_vars, opt_vars, run_vars>>

PreferredNext ==
  \/ \E open \in BOOLEAN, r \in Ranges : UpdateWithDevice(open, r)
  \/ \E value \in Values, ok \in BOOLEAN : SetPreferred(value, ok)

\* a setting of any class: with or without a DEFAULT_RANGE
PreferredInit ==
  /\ RecorderInit
  /\ EncoderInit(BASE_ENCODER_LIST)
  /\ OptionInit(<<75, 75>>)
  /\ \E default \in Ranges \cup {<<>>} : ValueInit(default)

PreferredSpec == PreferredInit /\ [][PreferredNext]_vars

\* ---------------------------------------------------------------- types
TypeOK ==
  /\ sink \in BOOLEAN /\ nextindex \in 0..(MaxIndex + 1)
  /\ session \in 0..2
  /\ prod_pc \in {"idle", "w_loop", "w_ret", "p_use_lock", "p_take", "p_copy",
                  "p_lock", "p_append", "c_wait", "x_lock", "x_signal", "x_wait",
                  "w_raise", "prep_raise"}
  /\ bt_pc \in {"lock", "wait", "woken", "locked", "pass", "quit",
                "pass_locked", "quit_locked", "join", "done"}
  /\ wt_pc \in {"lock", "wait", "woken", "locked", "write", "recycle_lock",
                "recycle", "close", "done"}
  /\ bt_mutex \in {"free", "prod", "bt"}
  /\ wt_mutex \in {"free", "bt", "wt"}
  /\ use_buf \in {"free", "prod", "wt"}
  /\ proc \in {"none", "open", "closed", "running"}
  /\ wt_exit \in {"none", "sentinel", "error", "raised"}
  /\ wt_toquit \in BOOLEAN
  /\ ended \in {"no", "closing", "closed", "aborting", "aborted"}
  /\ bt_count \in Nat /\ wt_count \in Nat /\ in_buf \in Nat
  /\ Len(pushed) <= MaxIndex + 1
  /\ nalloc <= MaxIndex + 1
  /\ mode \in AcquisitionModes /\ grabbing \in BOOLEAN
  /\ ending \in 0..MaxRepeat /\ connected \in 0..MaxRepeat
  /\ orphans \in 0..MaxRepeat /\ gui \in {"idle", "closing"}
  /\ interrupt \in BOOLEAN /\ message \in {"none", "info", "error"}
  /\ strobe_mode \in StrobeModes /\ strobe \in BOOLEAN
  /\ prev_strobe \in BOOLEAN /\ strobe0 \in BOOLEAN
  /\ called.mode \in ModeNames \cup {""} /\ called.raised \in BOOLEAN
  /\ Len(called.updated) <= 1
  /\ dev_open \in BOOLEAN /\ sel_enabled \in BOOLEAN
  /\ btn_text \in [Buttons -> AcquisitionModes]
  /\ btn_enabled \in [Buttons -> BOOLEAN]
  /\ availability \in [DeviceNames -> {"absent", "True", "False"}]
  /\ probes \in [DeviceNames -> 0..MaxProbes]
  /\ returned \in [device : DeviceNames \cup {""}, value : {"True", "False"}]
  /\ encoders \in EncoderLists
  /\ encoder \in {RAW_VIDEO, MJPEG_CPU, MJPEG_QSV, H264_NVENC}
  /\ quality \in QualityValues
  /\ enc_call.raised \in BOOLEAN /\ enc_call.filename \in BOOLEAN
  /\ Len(enc_call.updated) <= 1
  /\ q_in \in Qualities \X Qualities
  /\ q_fun \in QualityFunctions \cup {"none"}
  /\ Len(q_out) = 2
  /\ vm_device \in BOOLEAN
  /\ vm_range \in Ranges \cup {<<>>} /\ vm_default \in Ranges \cup {<<>>}
  /\ Len(vm_preferred) <= 1 /\ Len(vm_set.forwarded) <= 1

\* ---------------------------------------------------------------- properties
\* s is an initial segment of t
IsPrefix(s, t) ==
  /\ Len(s) <= Len(t)
  /\ \A i \in 1..Len(s) : s[i] = t[i]

\* the number of buffers a queue holds (None is no buffer)
Buffers(q) == Cardinality({i \in 1..Len(q) : q[i] # NoBuf})

\* 1 if the local variable holds a buffer
Held(img) == IF img = NoBuf THEN 0 ELSE 1

\* the buffers checked out: in the hand of push(), in the BufferThread's
\* FIFO, on the way to the writer, in the writer's FIFO, or being written
CheckedOut ==
  Held(p_img) + Buffers(bt_queue) + Held(bt_img) + Buffers(wt_queue) + Held(wt_img)

\* C1: the contents written to the encoder stream are, at every moment and in
\* every interleaving, an initial segment of the contents pushed, in the order
\* of the pushes: nothing is reordered, duplicated or skipped.
C1_WrittenInPushOrder == IsPrefix(written, pushed)

C1_Witness ==
  /\ Len(written) = 3 /\ written = pushed
  /\ exhausted /\ proc = "open"

\* C2: in a session whose encoder writes all succeed, the buffers checked out
\* plus the buffers available in the pool are num_buffer, and no more than
\* num_buffer buffers are ever checked out.
C2_PoolConservation ==
  (session > 0 /\ wt_exit # "error") =>
     /\ CheckedOut + in_buf = num_buffer
     /\ CheckedOut <= num_buffer

\* C3: once close() has returned after a drain that ended on the sentinel
\* (every write succeeded), the pool holds num_buffer buffers again.
C3_DrainRestoresPool ==
  (ended = "closed" /\ wt_exit = "sentinel") =>
     /\ in_buf = num_buffer
     /\ Len(buffer) = num_buffer

\* C4: a push that finds the pool empty is fatal: the producer is in the
\* abort handler of write() or the session has been aborted, and no frame has
\* entered the pipeline in a buffer allocated for the occasion.
C4_ExhaustionIsFatal ==
  exhausted =>
     /\ ended \in {"aborting", "aborted"}
     /\ nalloc = 0

\* C5: when write(index, frame) returns, it has enqueued exactly index - e
\* zeroed frames (none when index <= e), where e was the expected index at the
\* call, and after them the frame itself.
C5_GapFilling ==
  prod_pc = "w_ret" =>
     LET gap == IF w_index > w_e THEN w_index - w_e ELSE 0
     IN /\ Len(pushed) = w_len + gap + 1
        /\ \A k \in 1..gap : pushed[w_len + k] = Empty
        /\ pushed[w_len + gap + 1] = w_frame
        /\ w_frame # Empty

C5_Witness ==
  /\ prod_pc = "w_ret" /\ w_e = 1 /\ w_index = 2 /\ Len(pushed) = 3
  /\ pushed[2] = Empty /\ pushed[3] = w_frame

\* C6: in every session, when write(i, f) returns and i is not below the
\* number of frames enqueued before the call (as it is along strictly
\* increasing indices), the session has enqueued i + 1 frames and the one at
\* position i is f.
C6_OneFramePerTick ==
  (prod_pc = "w_ret" /\ w_index >= w_len) =>
     /\ Len(pushed) = w_index + 1
     /\ pushed[w_index + 1] = w_frame
     /\ nextindex = w_index + 1

C6_Witness ==
  /\ session = 2 /\ prod_pc = "w_ret"
  /\ w_index = 2 /\ w_len = 0 /\ pushed = <<Empty, Empty, w_frame>>

\* C7: when the writer has left its loop on the sentinel that close() pushed,
\* every frame pushed in the session has been written, in order; the encoder's
\* input is still open at that moment and is closed only afterwards.
C7_GracefulDrain ==
  (ended \in {"closing", "closed"} /\ wt_exit = "sentinel") =>
     /\ written = pushed
     /\ wt_pc \in {"close", "done"}
     /\ (proc = "open" <=> wt_pc = "close")

C7_Witness ==
  /\ ended = "closed" /\ wt_exit = "sentinel" /\ proc = "closed"
  /\ Len(pushed) = 3 /\ written = pushed

\* C9: after signal() the BufferThread is never left blocked in its wait on
\* the condition.  With the flag set and the thread in that wait, nothing
\* wakes it again: signal()'s wakeAll has passed, the producer is on its way
\* into sink.wait(), and the thread never forwards the sentinel nor ends.
C9_AbortNeverBlocks == ~(bt_toquit /\ bt_pc = "wait")

\* C10: once signal() has returned (the flag is set and the mutex released),
\* the BufferThread's FIFO is never popped again: the frames left in it are
\* not passed to the writer.
C10_AbortDiscardsQueued ==
  [][(bt_toquit /\ bt_toquit') => bt_queue' = bt_queue]_vars

C10_Witness ==
  /\ bt_toquit /\ bt_pc = "done" /\ wt_pc = "done"
  /\ Len(bt_queue) = 2 /\ written = <<>>

\* C11: when the WriterThread has finished, the encoder process of its
\* session has exited and been waited on (killed first if it outlived the
\* timeout), and self._proc is cleared: no process is left running.
C11_TimeoutKillsAndReaps ==
  (session > 0 /\ wt_pc = "done") => proc = "closed"

\* C13: the WriterThread ends only out of the termination routine that
\* follows its loop, and the step that ends it leaves the encoder process
\* closed: whatever made the loop stop, the process is not left open.
C13_EveryExitTerminates ==
  [][(wt_pc # "done" /\ wt_pc' = "done") => (wt_pc = "close" /\ proc' = "closed")]_vars

\* C14: a failed write to the encoder is reported before the service takes
\* another frame.  Nothing in StorageService, BufferThread or WriterThread
\* emits interruptAcquisition, so once the writer has ended on a write error
\* the failure stays unreported, and then no write() may be entered any more.
C14_WriteFailureStopsIngest ==
  [][(wt_exit = "error" /\ wt_pc = "done") =>
        ~(prod_pc = "idle" /\ prod_pc' = "w_loop")]_vars

\* C15: write() never waits for a pipeline thread to finish.
C15_WriteNeverWaits ==
  ~(prod_pc = "x_wait" /\ bt_pc # "done")

\* C16: no call of write() ends by raising into its caller, in particular
\* not the write() of the next frame after a write that failed and tore the
\* session down (frameReady is still connected to write then).
C16_WriteNeverRaises ==
  ended = "aborted" => prod_pc # "w_raise"

\* the mutexes thread t holds
HeldBy(t) ==
  (IF bt_mutex = t THEN {"BufferThread._mutex"} ELSE {})
    \cup (IF use_buf = t THEN {"BufferThread._use_buf"} ELSE {})
    \cup (IF wt_mutex = t THEN {"WriterThread._mutex"} ELSE {})

\* C17: no thread holds the pool mutex together with a queue mutex, and no
\* thread holds any of the three mutexes while it writes to the encoder
\* stream, runs the encoder's termination, or waits for a thread to finish.
C17_MutexDiscipline ==
  /\ \A t \in {"prod", "bt", "wt"} :
       "BufferThread._use_buf" \in HeldBy(t) => HeldBy(t) = {"BufferThread._use_buf"}
  /\ wt_pc \in {"write", "close"} => HeldBy("wt") = {}
  /\ bt_pc = "join" => HeldBy("bt") = {}
  /\ prod_pc \in {"c_wait", "x_wait"} => HeldBy("prod") = {}

C17_Witness ==
  /\ wt_pc = "write" /\ HeldBy("wt") = {}
  /\ HeldBy("bt") = {"WriterThread._mutex"}
  /\ HeldBy("prod") = {"BufferThread._mutex"}

\* C18: by the time close() has put the end-of-stream sentinel into the
\* FIFO, frameReady is no longer connected to write.
C18_DetachedBeforeSentinel ==
  ended = "closing" => connected = 0

\* C19: no sink is ever replaced by prepare() while it is running, so at
\* most one session is active, and frameReady has at most one connection to
\* write.
C19_OneSession ==
  orphans = 0 /\ connected <= 1

\* C20: while a session stays active nothing restarts it: its expected index
\* never goes back and its sink is not replaced.
C20_PrepareLeavesSession ==
  [][(sink /\ sink') => (nextindex' >= nextindex /\ orphans' = orphans)]_vars

\* C21: with no session in place no step starts a drain: no sentinel is
\* handed to push(), the caller enters no wait, and the session's end marker
\* stays as it was.  close() on an inactive service leaves every variable as
\* it found it, so calling it again after a close() has returned is harmless.
C21_CloseWithoutSessionIsNoOp ==
  [][(prod_pc = "idle" /\ sink = FALSE)
       => /\ prod_pc' \in {"idle", "w_raise", "prep_raise"}
          /\ sink' = FALSE => /\ ended' = ended /\ proc' = proc
                              /\ bt_queue' = bt_queue /\ bt_count' = bt_count
                              /\ wt_queue' = wt_queue /\ wt_count' = wt_count
                              /\ bt_pc' = bt_pc /\ wt_pc' = wt_pc]_vars

\* A close() has returned, the threads are gone, and close() can be called
\* again.
C21_Witness ==
  /\ ENABLED CloseNoSink
  /\ ended = "closed" /\ bt_pc = "done" /\ wt_pc = "done"
  /\ Len(written) = 1

\* C22: a prepare() whose encoder cannot be launched raises to its caller and
\* creates nothing: the step that raises changes no other variable, and when
\* the exception arrives the service has no sink, neither thread runs, and
\* write() has no session to hand a frame to.
C22_FailedLaunchCreatesNothing ==
  [][/\ (prod_pc # "prep_raise" /\ prod_pc' = "prep_raise")
          => UNCHANGED <<svc_vars, btq_vars, bt_mutex, bt_pc, bt_img,
                         pool_vars, use_buf, wtq_vars, wt_mutex, wt_pc,
                         wt_img, wt_exit, proc, hist_vars>>
     /\ prod_pc = "prep_raise"
          => /\ prod_pc' = "idle" /\ sink' = FALSE
             /\ bt_pc' = "done" /\ wt_pc' = "done"
             /\ pushed' = pushed]_vars

\* A launch fails after an earlier session was closed with one frame written.
C22_Witness ==
  /\ prod_pc = "prep_raise" /\ sink = FALSE
  /\ session = 1 /\ ended = "closed" /\ Len(written) = 1

C26_SelectedIsAvailable ==
  \E i \in 1..Len(list_encoders) : list_encoders[i] = encoder

\* the number an option list hands to the encoder: its last entry
OptionValue(opt) == int(opt[Len(opt)])

\* C27: of two qualities in 1..100 the higher one never gets the higher
\* encoder parameter, for -q:v of MJPEG as for -cq:v of NVEnc.
C27_QualityMonotonic ==
  (q_fun \in {"mjpeg_quality_option", "h264_nvenc_quality_option"}
     /\ q_in[1] <= q_in[2])
    => OptionValue(q_out[1]) >= OptionValue(q_out[2])

\* MJPEG options for the qualities 50 and 51, which get different parameters
C27_Witness ==
  /\ q_fun = "mjpeg_quality_option" /\ q_in = <<50, 51>>
  /\ q_out = <<<<"-q:v", <<"1", "7">>>>, <<"-q:v", <<"1", "6">>>>>>

\* C28: for a quality in 1..100 the MJPEG parameter is in 2..31, 31 for 1 and
\* 2 for 100, and the NVEnc parameter is in 10..43, 43 for 1 and 10 for 100.
C28_QualityRange ==
  \A i \in 1..2 :
    /\ q_fun = "mjpeg_quality_option"
         => /\ q_out[i][1] = "-q:v"
            /\ OptionValue(q_out[i]) \in 2..31
            /\ q_in[i] = 1 => OptionValue(q_out[i]) = 31
            /\ q_in[i] = 100 => OptionValue(q_out[i]) = 2
    /\ q_fun = "h264_nvenc_quality_option"
         => /\ q_out[i][3] = "-cq:v"
            /\ OptionValue(q_out[i]) \in 10..43
            /\ q_in[i] = 1 => OptionValue(q_out[i]) = 43
            /\ q_in[i] = 100 => OptionValue(q_out[i]) = 10

\* NVEnc options for the two ends of the range
C28_Witness ==
  /\ q_fun = "h264_nvenc_quality_option" /\ q_in = <<100, 1>>
  /\ q_out = <<<<"-rc:v", "vbr", "-cq:v", <<"1", "0">>>>,
               <<"-rc:v", "vbr", "-cq:v", <<"4", "3">>>>>>

\* how often buffer b is in the FIFO q, and whether the local x holds it
Count(q, b) == Cardinality({i \in 1..Len(q) : q[i] = b})
Here(x, b) == IF x = b THEN 1 ELSE 0

\* the places buffer b is in: the pool, the BufferThread's FIFO, the
\* writer's FIFO, the writer's hand (being written or recycled), or the hand
\* of the thread that moves it from one to the next
Queued(b) ==
  Count(bt_queue, b) + Here(bt_img, b) + Count(wt_queue, b) + Here(wt_img, b)
Places(b) == Count(buffer, b) + Here(p_img, b) + Queued(b)

C30_SignalAbortsCleanly ==
  (wt_toquit /\ wt_pc = "done") => wt_mutex = "free"

\* C31: after the acquisition has returned to IDLE the device's strobe
\* setting is the one it had before the acquisition was started, for every
\* sequence of setAcquisitionMode calls, FOCUS followed directly by GRAB
\* included.
C31_StrobeRestored == (mode = IDLE) => (strobe = strobe0)

Forwarded ==
  Count(wt_queue, NoBuf) + (IF wt_exit = "sentinel" THEN 1 ELSE 0)

C34_CountMatchesQueue ==
  /\ bt_mutex = "free" => bt_count = Len(bt_queue)
  /\ wt_mutex = "free" => wt_count = Len(wt_queue)
  /\ (bt_pc = "locked" /\ ~AbortSeen(bt_toquit, bt_count)) => Len(bt_queue) > 0
  /\ (wt_pc = "locked" /\ ~wt_toquit) => Len(wt_queue) > 0

\* in a second session both threads are at their pop, the writer with two
\* entries queued
C34_Witness ==
  /\ bt_pc = "locked" /\ bt_count = 1 /\ ~bt_toquit
  /\ wt_pc = "locked" /\ wt_count = 2 /\ ~wt_toquit
  /\ session = 2

\* C36: driven through the FOCUS and GRAB buttons, the mode moves only
\* between IDLE and FOCUS or between IDLE and GRAB.  While an acquisition
\* runs its own button reads IDLE and the other button is disabled; in IDLE
\* each button reads its own mode; so no click requests a change from one
\* acquisition to the other, whatever the clicks and the openings and
\* closings of the device.
C36_NoDirectSwitch ==
  /\ [](\A b \in Buttons :
          /\ mode = b => (btn_text[b] = IDLE /\ \A o \in Buttons \ {b} : ~btn_enabled[o])
          /\ mode = IDLE => btn_text[b] = b)
  /\ [][/\ mode' # mode => (mode = IDLE \/ mode' = IDLE)
        /\ \A b \in Buttons : Click(b) =>
             \/ mode = IDLE /\ called'.mode = b
             \/ mode = b /\ called'.mode = IDLE]_vars

\* a second recording runs: GRAB reads IDLE and is enabled, FOCUS and the
\* device selector are disabled
C36_Witness ==
  /\ mode = GRAB /\ btn_text[GRAB] = IDLE /\ btn_enabled[GRAB]
  /\ ~btn_enabled[FOCUS] /\ ~sel_enabled /\ dev_open
  /\ session = 2 /\ called.updated = <<<<IDLE, GRAB>>>>

\* C37: setEncoder with a string that is the description of no encoder of
\* list_encoders() raises, leaves the current encoder as it is, emits no
\* updatedEncoder and updates no file name.
C37_UnknownEncoderRejected ==
  [][\A value \in EncoderValues :
       (/\ SetEncoder(value)
        /\ value.isstr
        /\ \A i \in 1..Len(list_encoders) :
              description(list_encoders[i]) # value.str) =>
         /\ encoder' = encoder
         /\ enc_call'.raised
         /\ enc_call'.updated = <<>>
         /\ ~enc_call'.filename]_vars

\* on a machine without the NVIDIA encoder MJPEG had been selected, and a
\* string that describes no available encoder was refused
C37_Witness ==
  /\ enc_call.raised /\ enc_call.updated = <<>>
  /\ encoder = MJPEG_CPU /\ encoders = <<RAW_VIDEO, MJPEG_CPU>>

\* C38: the quality held by the service is always within QUALITY_RANGE,
\* after any sequence of setQuality and load_dict calls.
C38_QualityInRange ==
  QUALITY_RANGE[1] <= quality /\ quality <= QUALITY_RANGE[2]

\* ---------------------------------------------------------------- liveness
\* The scheduler lets every thread that can take a step take one eventually:
\* the BufferThread, the WriterThread, and the thread inside a call of
\* write() or close().  Whether write(), close() or prepare() is called at
\* all is up to the application.
LiveSpec ==
  /\ Init /\ [][Next]_vars
  /\ WF_vars(BufferThread)
  /\ WF_vars(WriterThread)
  /\ WF_vars(Producer)

\* C8: once close() has put the sentinel into the BufferThread's FIFO and
\* waits, both threads end (every write to the encoder returns, by success or
\* by raising) and close() returns.
C8_DrainTerminates ==
  (prod_pc = "c_wait") ~> (bt_pc = "done" /\ wt_pc = "done" /\ ended = "closed")

C8_Witness ==
  /\ prod_pc = "c_wait" /\ bt_pc = "woken" /\ wt_pc = "wait"
  /\ ended = "closing" /\ Len(written) = 3

====
